---- MODULE Spec2Model ----
(***************************************************************************)
(* The grammar -> automaton -> table -> parse pipeline of lr-learning:     *)
(* the LR(0) and LR(1) item-set builders, the two table builders and the   *)
(* shift-reduce driver, as one state machine.                              *)
(***************************************************************************)
EXTENDS Integers, Sequences, FiniteSets, TLC

VARIABLES
  bnfSet,      \* the BNFSet handed to the pipeline (BNFSet.bnfs)
  algorithm,   \* MainPage's algorithm: "LR0" | "LR1" | "LR1-L"
  pc,          \* position in the pipeline
  itemSets,    \* LRItemSets.itemSets / LR1ItemSets.itemSets
  que,         \* calcClosure's work queue of state indexes
  nodeHash,    \* calcClosure's map: kernel key -> state index
  table,       \* the finished rows of the transition table
  row,         \* the row being built (row.actions, row.gotos)
  stateIndex,  \* index of the state whose row is being built
  itemIndex,   \* how many forEach callbacks of the current row have run
  firstSet,    \* LR1ItemSets.firstSet
  program,     \* token kinds handed to parseProgram
  stack,       \* parseProgram: state stack
  symbolStack, \* parseProgram: symbol stack of ParseTreeNode
  logs,        \* parseProgram: trace
  index,       \* parseProgram: input position
  outcome,     \* how parseProgram's loop ended: "" while running
  bnf,         \* MainPage's bnf: the grammar text, a sequence of lines of characters
  bnfWarnings, \* MainPage's bnfWarnings: what getRawBNFWarningThrows returned
  builds       \* the automata built earlier from this BNFSet object

vars == <<bnfSet, algorithm, pc, itemSets, que, nodeHash, table, row, stateIndex,
          itemIndex, firstSet, program, stack, symbolStack, logs, index, outcome,
          bnf, bnfWarnings, builds>>

autoVars == <<itemSets, que, nodeHash, firstSet>>
tableVars == <<table, row, stateIndex, itemIndex>>
parseVars == <<program, stack, symbolStack, logs, index, outcome>>

textVars == <<bnf, bnfWarnings>>

MaxProgramLen == 3

\* how many times the automaton is built from one BNFSet object
MaxBuilds == 2

\* the longest grammar text, in lines
MaxLines == 3

\* the longest name made of capitals and underscores
MaxNameLen == 2
MaxLogs == 12

(***************************************************************************)
(* Generic helpers                                                         *)
(***************************************************************************)
EmptyMap == [x \in {} |-> 0]

Put(f, k, v) == [x \in (DOMAIN f) \cup {k} |-> IF x = k THEN v ELSE f[x]]

Has(f, k) == k \in DOMAIN f

RECURSIVE Flatten(_)
Flatten(ss) == IF ss = <<>> THEN <<>> ELSE Head(ss) \o Flatten(Tail(ss))

Range(s) == {s[i] : i \in 1..Len(s)}

Last(s) == s[Len(s)]

DropLast(s, n) == SubSeq(s, 1, Len(s) - n)

(***************************************************************************)
(* Grammar model: BNFElement, BNFConcatenation, BNF, BNFSet                *)
(***************************************************************************)
BNFElement(t, v) == [type |-> t, value |-> v]
T(v) == BNFElement("terminal", v)
N(v) == BNFElement("nonterminal", v)
Undefined == BNFElement("undefined", "")

BNFConcatenation(left, elements) == [left |-> left, elements |-> elements]
NullConcat == BNFConcatenation("", <<>>)

BNF(left, alts) == [left |-> left, right |-> [i \in 1..Len(alts) |-> BNFConcatenation(left, alts[i])]]

\* S -> L 'e' ; L -> 'l' L 'r' | 'n'
GList == << BNF("S", << <<N("L"), T("e")>> >>),
            BNF("L", << <<T("l"), N("L"), T("r")>>, <<T("n")>> >>) >>

\* S -> 'a' S 'b' | 'a' 'b'
GNest == << BNF("S", << <<T("a"), N("S"), T("b")>>, <<T("a"), T("b")>> >>) >>

\* S -> T | 'p' T ; T -> T 'm' | 'f'
GGoto == << BNF("S", << <<N("T")>>, <<T("p"), N("T")>> >>),
            BNF("T", << <<N("T"), T("m")>>, <<T("f")>> >>) >>

\* S -> C ; C -> 'i' C 'e' C | 'i' C | 'x'
GElse == << BNF("S", << <<N("C")>> >>),
            BNF("C", << <<T("i"), N("C"), T("e"), N("C")>>, <<T("i"), N("C")>>, <<T("x")>> >>) >>

\* S -> X ; X -> A 'c' | B 'c' | 'a' 'c' | 'q' A 'd' | 'q' B 'd' ; A -> 'a' ; B -> 'a'
GRR == << BNF("S", << <<N("X")>> >>),
          BNF("X", << <<N("A"), T("c")>>, <<N("B"), T("c")>>, <<T("a"), T("c")>>,
                      <<T("q"), N("A"), T("d")>>, <<T("q"), N("B"), T("d")>> >>),
          BNF("A", << <<T("a")>> >>),
          BNF("B", << <<T("a")>> >>) >>

\* S -> X ; X -> X '$' | 'a' | Y 'b' ; Y -> X
GDollar == << BNF("S", << <<N("X")>> >>),
              BNF("X", << <<N("X"), T("$")>>, <<T("a")>>, <<N("Y"), T("b")>> >>),
              BNF("Y", << <<N("X")>> >>) >>

\* S -> 'p' W | 'a' ; W -> A | B | S ; A -> 'a' ; B -> 'a'
GAcc == << BNF("S", << <<T("p"), N("W")>>, <<T("a")>> >>),
           BNF("W", << <<N("A")>>, <<N("B")>>, <<N("S")>> >>),
           BNF("A", << <<T("a")>> >>),
           BNF("B", << <<T("a")>> >>) >>

\* S -> X ; X -> 'p' C | 'q' D | 'r' C 'w' ; C -> A | B ; D -> B | A ;
\* A -> 'x' 'u' ; B -> 'x' 'v'
GOrder == << BNF("S", << <<N("X")>> >>),
             BNF("X", << <<T("p"), N("C")>>, <<T("q"), N("D")>>, <<T("r"), N("C"), T("w")>> >>),
             BNF("C", << <<N("A")>>, <<N("B")>> >>),
             BNF("D", << <<N("B")>>, <<N("A")>> >>),
             BNF("A", << <<T("x"), T("u")>> >>),
             BNF("B", << <<T("x"), T("v")>> >>) >>

\* S -> X ; X -> A B ; A -> 'a' ; B -> 'b' | 'c'
GSeq == << BNF("S", << <<N("X")>> >>),
           BNF("X", << <<N("A"), N("B")>> >>),
           BNF("A", << <<T("a")>> >>),
           BNF("B", << <<T("b")>>, <<T("c")>> >>) >>

\* the grammars handed to the pipeline; each passes getRawBNFWarningThrows
\* S -> S 'a'
GLeft == << BNF("S", << <<N("S"), T("a")>> >>) >>

\* S -> A ; A -> B | 'a' ; B -> A
GCycle == << BNF("S", << <<N("A")>> >>),
             BNF("A", << <<N("B")>>, <<T("a")>> >>),
             BNF("B", << <<N("A")>> >>) >>

Grammars == {GList, GNest, GGoto, GElse, GRR, GDollar, GAcc, GOrder, GSeq, GLeft, GCycle}

Algorithms == {"LR0", "LR1", "LR1-L"}

getBNFbyLeft(g, left) ==
  Flatten([i \in 1..Len(g) |-> IF g[i].left = left THEN g[i].right ELSE <<>>])

hasNonTerminal(g, name) == \E i \in 1..Len(g) : g[i].left = name

isTerminal(el) == el.type = "terminal"

AllConcats(g) == Flatten([i \in 1..Len(g) |-> g[i].right])

TerminalsOf(c) == {c.elements[k].value : k \in {j \in 1..Len(c.elements) : isTerminal(c.elements[j])}}

getAllTerminals(g) == UNION {TerminalsOf(c) : c \in Range(AllConcats(g))}

\* BNFSet.getStartSymbol: the production state 0 is seeded with, and the
\* grammar after the call (the synthetic rule is appended to the grammar).
\* the names the source spells with an acute accent (BNFSet.getStartSymbol) and
\* with a backquote (the table builders); two different strings
SDash == "S_acute"
SBackquote == "S_backquote"
\* a variant that augments the grammar only the first time it is asked
getStartSymbolOnce(g) ==
  LET bc == getBNFbyLeft(g, "S") IN
  IF Len(bc) = 1 \/ \E i \in 1..Len(g) : g[i].left = SDash
    THEN [concat |-> bc[1], bnfs |-> g]
    ELSE [concat |-> BNFConcatenation(SDash, <<N("S")>>),
          bnfs |-> Append(g, BNF(SDash, << <<N("S")>> >>))]

getStartSymbol(g) ==
  LET bc == getBNFbyLeft(g, "S") IN
  IF Len(bc) = 1
    THEN [concat |-> bc[1], bnfs |-> g]
    ELSE [concat |-> BNFConcatenation(SDash, <<N("S")>>),
          bnfs |-> Append(g, BNF(SDash, << <<N("S")>> >>))]

(***************************************************************************)
(* LRItem                                                                  *)
(***************************************************************************)
LRItem(concat, dot, la) == [concatenation |-> concat, dotPosition |-> dot, lookahead |-> la]

advance(item) == LRItem(item.concatenation, item.dotPosition + 1, item.lookahead)

getDotNextElement(item) ==
  IF item.dotPosition + 1 <= Len(item.concatenation.elements)
    THEN item.concatenation.elements[item.dotPosition + 1]
    ELSE Undefined

\* LRItem.getHash: production hash and dot position, no lookahead
getHash(item) == <<item.concatenation, item.dotPosition>>

(***************************************************************************)
(* LR(0) item sets (LRItemSet, LRItemSets)                                 *)
(***************************************************************************)
LRItemSet(initItems) == [initItems |-> initItems, lrItems |-> initItems, goto |-> EmptyMap]

\* rvItems is an object: iteration follows the insertion order of its keys
RvIndex(rv, name) == IF \E i \in 1..Len(rv) : rv[i].name = name
                       THEN CHOOSE i \in 1..Len(rv) : rv[i].name = name
                       ELSE 0

\* a variant that keeps only the last item registered under a symbol
pushRvItemsOverwrite(rv, name, item) ==
  LET i == RvIndex(rv, name) IN
  IF i = 0 THEN Append(rv, [name |-> name, items |-> <<item>>])
  ELSE [rv EXCEPT ![i].items = <<item>>]

pushRvItems(rv, name, item) ==
  LET i == RvIndex(rv, name) IN
  IF i = 0 THEN Append(rv, [name |-> name, items |-> <<item>>])
  ELSE IF getHash(item) \in {getHash(x) : x \in Range(rv[i].items)} THEN rv
  ELSE [rv EXCEPT ![i].items = Append(@, item)]

\* the forEach over the productions of the nonterminal after the dot
RECURSIVE closureExpand(_, _)
closureExpand(concats, st) ==
  IF concats = <<>> THEN st
  ELSE LET newItem == LRItem(Head(concats), 0, "")
           dotNext == getDotNextElement(newItem)
       IN IF getHash(newItem) \in st.hashSet THEN closureExpand(Tail(concats), st)
          ELSE closureExpand(Tail(concats),
                 [que |-> Append(st.que, newItem),
                  hashSet |-> st.hashSet \cup {getHash(newItem)},
                  lrItems |-> Append(st.lrItems, newItem),
                  rv |-> pushRvItems(st.rv, dotNext.value, advance(newItem))])

RECURSIVE closureLoop(_, _)
closureLoop(g, st) ==
  IF st.que = <<>> THEN st
  ELSE LET queNewItem == Head(st.que)
           queElement == getDotNextElement(queNewItem)
           rest == [st EXCEPT !.que = Tail(st.que)]
       IN IF queElement = Undefined THEN closureLoop(g, rest)
          ELSE LET pushed == [rest EXCEPT !.rv = pushRvItems(@, queElement.value, advance(queNewItem))]
               IN IF queElement.type = "nonterminal"
                    THEN closureLoop(g, closureExpand(getBNFbyLeft(g, queElement.value), pushed))
                    ELSE closureLoop(g, pushed)

\* LRItemSet.closure: the items after closure and the candidate kernels
closure(g, itemSet) ==
  closureLoop(g, [que |-> itemSet.initItems, hashSet |-> {},
                  lrItems |-> itemSet.lrItems, rv |-> <<>>])

\* the key calcClosure interns kernels under: the item hashes joined in list order
nItemListHash(nItemList) == [i \in 1..Len(nItemList) |-> getHash(nItemList[i])]

\* a variant that numbers a new state by the length of the list after the push
RECURSIVE calcEntriesOneBased(_, _, _)
calcEntriesOneBased(cur, rv, st) ==
  IF rv = <<>> THEN st
  ELSE LET nextState == Head(rv).name
           nItemList == Head(rv).items
           h == nItemListHash(nItemList)
       IN IF Has(st.nodeHash, h)
            THEN calcEntriesOneBased(cur, Tail(rv),
                   [st EXCEPT !.itemSets[cur + 1].goto = Put(@, nextState, st.nodeHash[h])])
            ELSE LET ni == Len(st.itemSets) + 1 IN
                 calcEntriesOneBased(cur, Tail(rv),
                   [itemSets |-> [Append(st.itemSets, LRItemSet(nItemList))
                                    EXCEPT ![cur + 1].goto = Put(@, nextState, ni)],
                    nodeHash |-> Put(st.nodeHash, h, ni),
                    que |-> Append(st.que, ni)])

\* the for loop of calcClosure over the entries of the closure's result;
\* state indexes are 0-based as in the source, itemSets[n + 1] is state n
RECURSIVE calcEntries(_, _, _)
calcEntries(cur, rv, st) ==
  IF rv = <<>> THEN st
  ELSE LET nextState == Head(rv).name
           nItemList == Head(rv).items
           h == nItemListHash(nItemList)
       IN IF Has(st.nodeHash, h)
            THEN calcEntries(cur, Tail(rv),
                   [st EXCEPT !.itemSets[cur + 1].goto = Put(@, nextState, st.nodeHash[h])])
            ELSE LET ni == Len(st.itemSets) IN
                 calcEntries(cur, Tail(rv),
                   [itemSets |-> [Append(st.itemSets, LRItemSet(nItemList))
                                    EXCEPT ![cur + 1].goto = Put(@, nextState, ni)],
                    nodeHash |-> Put(st.nodeHash, h, ni),
                    que |-> Append(st.que, ni)])

(***************************************************************************)
(* FIRST sets (first.ts). A JavaScript Set iterates in insertion order, so *)
(* a set is kept as a duplicate-free sequence.                             *)
(***************************************************************************)
Epsilon == "epsilon"

SetAdd(s, x) == IF x \in Range(s) THEN s ELSE Append(s, x)

RECURSIVE SetAddAll(_, _)
SetAddAll(s, xs) == IF xs = <<>> THEN s ELSE SetAddAll(SetAdd(s, Head(xs)), Tail(xs))

SetWithout(s, x) == SelectSeq(s, LAMBDA y : y # x)

\* initializeFirstSet: every left-hand side and every right-hand symbol starts
\* empty; a terminal not yet present starts as itself
RECURSIVE initSymbols(_, _)
initSymbols(fs, syms) ==
  IF syms = <<>> THEN fs
  ELSE initSymbols(IF Has(fs, Head(syms)) THEN fs ELSE Put(fs, Head(syms), <<>>), Tail(syms))

ElementValues(b) == Flatten([i \in 1..Len(b.right) |->
                       [k \in 1..Len(b.right[i].elements) |-> b.right[i].elements[k].value]])

initializeFirstSet(g) ==
  LET syms == Flatten([i \in 1..Len(g) |-> <<g[i].left>> \o ElementValues(g[i])])
      fs == initSymbols(EmptyMap, syms)
  IN [x \in (DOMAIN fs) \cup getAllTerminals(g) |-> IF Has(fs, x) THEN fs[x] ELSE <<x>>]

\* the walk over the symbols of one right-hand side
RECURSIVE firstWalk(_, _, _, _)
firstWalk(g, left, symbols, st) ==
  IF symbols = <<>>
    THEN IF left \in st.nullable THEN st
         ELSE [st EXCEPT !.nullable = @ \cup {left}, !.changed = TRUE]
  ELSE LET symbol == Head(symbols) IN
       IF ~hasNonTerminal(g, symbol)
         THEN IF symbol \in Range(st.firstSet[left]) THEN st
              ELSE [st EXCEPT !.firstSet[left] = Append(@, symbol), !.changed = TRUE]
         ELSE LET added == SetAddAll(st.firstSet[left], SetWithout(st.firstSet[symbol], Epsilon))
                  st1 == [st EXCEPT !.firstSet[left] = added,
                                    !.changed = @ \/ Len(added) > Len(st.firstSet[left])]
              IN IF symbol \notin st.nullable THEN st1
                 ELSE firstWalk(g, left, Tail(symbols), st1)

RECURSIVE firstPass(_, _, _)
firstPass(g, concats, st) ==
  IF concats = <<>> THEN st
  ELSE firstPass(g, Tail(concats),
         firstWalk(g, Head(concats).left, [i \in 1..Len(Head(concats).elements) |-> Head(concats).elements[i].value], st))

RECURSIVE computeFirstSet(_, _)
computeFirstSet(g, st) ==
  LET r == firstPass(g, AllConcats(g), [st EXCEPT !.changed = FALSE]) IN
  IF r.changed THEN computeFirstSet(g, r) ELSE r

first(g) ==
  LET r == computeFirstSet(g, [firstSet |-> initializeFirstSet(g), nullable |-> {}, changed |-> TRUE])
  IN [x \in DOMAIN r.firstSet |-> IF x \in r.nullable THEN SetAdd(r.firstSet[x], Epsilon) ELSE r.firstSet[x]]

\* FIRST(beta a), from the precomputed FIRST sets
RECURSIVE computeFirstSeqBetaA(_, _, _, _)
computeFirstSeqBetaA(beta, a, fs, out) ==
  IF beta = <<>> THEN (IF a # "" THEN SetAdd(out, a) ELSE out)
  ELSE LET el == Head(beta) IN
       IF el.type = "terminal" THEN (IF el.value # "" THEN SetAdd(out, el.value) ELSE out)
       ELSE LET f == IF Has(fs, el.value) THEN fs[el.value] ELSE <<>> IN
            IF f = <<>> THEN out
            ELSE LET out1 == SetAddAll(out, SetWithout(f, Epsilon)) IN
                 IF Epsilon \notin Range(f) THEN out1
                 ELSE computeFirstSeqBetaA(Tail(beta), a, fs, out1)

(***************************************************************************)
(* LR(1) item sets (LR1ItemSet, LR1ItemSets)                               *)
(***************************************************************************)
fullKey(item) == <<getHash(item), item.lookahead>>

hasItem1(items, item) == fullKey(item) \in {fullKey(i) : i \in Range(items)}

addItem1(items, item) == IF hasItem1(items, item) THEN items ELSE Append(items, item)

RECURSIVE addAllItem1(_, _)
addAllItem1(items, new) ==
  IF new = <<>> THEN items ELSE addAllItem1(addItem1(items, Head(new)), Tail(new))

LR1ItemSet(initItems) ==
  [initItems |-> initItems, lrItems |-> addAllItem1(<<>>, initItems), goto |-> EmptyMap]

pushRv(rv, sym, item) ==
  LET i == RvIndex(rv, sym) IN
  IF i = 0 THEN Append(rv, [name |-> sym, items |-> <<item>>])
  ELSE IF hasItem1(rv[i].items, item) THEN rv
  ELSE [rv EXCEPT ![i].items = Append(@, item)]

\* a variant that seeds the first production with the first lookahead only
closure1SeedOne(prods, laSet, st) ==
  IF prods = <<>> \/ laSet = <<>> THEN st
  ELSE LET seed == LRItem(Head(prods), 0, Head(laSet)) IN
       IF fullKey(seed) \in st.seen THEN st
       ELSE [st EXCEPT !.seen = @ \cup {fullKey(seed)},
                       !.lrItems = Append(@, seed),
                       !.q = Append(@, seed)]

\* for (prod of prods) for (la of laSet): seed [B -> .gamma, la] when unseen
RECURSIVE closure1Seed(_, _, _)
closure1Seed(prods, laSet, st) ==
  IF prods = <<>> THEN st
  ELSE LET RECURSIVE perLa(_, _)
           perLa(las, s) ==
             IF las = <<>> THEN s
             ELSE LET seed == LRItem(Head(prods), 0, Head(las)) IN
                  IF fullKey(seed) \in s.seen THEN perLa(Tail(las), s)
                  ELSE perLa(Tail(las),
                         [s EXCEPT !.seen = @ \cup {fullKey(seed)},
                                   !.lrItems = addItem1(@, seed),
                                   !.q = Append(@, seed)])
       IN closure1Seed(Tail(prods), laSet, perLa(laSet, st))

RECURSIVE closure1Loop(_, _, _)
closure1Loop(g, fs, st) ==
  IF st.q = <<>> THEN st
  ELSE LET cur == Head(st.q)
           nextEl == getDotNextElement(cur)
           rest == [st EXCEPT !.q = Tail(st.q)]
       IN IF nextEl = Undefined THEN closure1Loop(g, fs, rest)
          ELSE LET beta == SubSeq(cur.concatenation.elements, cur.dotPosition + 2,
                                  Len(cur.concatenation.elements))
                   laSet == computeFirstSeqBetaA(beta, cur.lookahead, fs, <<>>)
                   seeded == IF nextEl.type = "nonterminal"
                               THEN closure1Seed(getBNFbyLeft(g, nextEl.value), laSet, rest)
                               ELSE rest
               IN closure1Loop(g, fs,
                    [seeded EXCEPT !.rv = pushRv(@, nextEl.value, advance(cur))])

\* LR1ItemSet.closure
closure1(g, fs, itemSet) ==
  closure1Loop(g, fs,
    [q |-> itemSet.initItems, seen |-> {fullKey(i) : i \in Range(itemSet.lrItems)},
     lrItems |-> itemSet.lrItems, rv |-> <<>>])

\* LR1ItemSets.itemsKey: the full keys sorted and joined
\* a variant that keys a candidate by its cores, without the lookaheads
itemsKeyCores(items) == {getHash(i) : i \in Range(items)}

itemsKey(items) == {fullKey(i) : i \in Range(items)}

RECURSIVE calcEntries1(_, _, _)
calcEntries1(cur, rv, st) ==
  IF rv = <<>> THEN st
  ELSE LET sym == Head(rv).name
           nItems == Head(rv).items
           key == itemsKey(nItems)
       IN IF Has(st.nodeHash, key)
            THEN calcEntries1(cur, Tail(rv),
                   [st EXCEPT !.itemSets[cur + 1].goto = Put(@, sym, st.nodeHash[key])])
            ELSE LET ni == Len(st.itemSets) IN
                 calcEntries1(cur, Tail(rv),
                   [itemSets |-> [Append(st.itemSets, LR1ItemSet(nItems))
                                    EXCEPT ![cur + 1].goto = Put(@, sym, ni)],
                    nodeHash |-> Put(st.nodeHash, key, ni),
                    que |-> Append(st.que, ni)])

(***************************************************************************)
(* Transition table: Action, TransitionTableRow                            *)
(***************************************************************************)
Shift(n) == [type |-> "shift", toState |-> n, by |-> NullConcat, list |-> <<>>]
Reduce(c) == [type |-> "reduce", toState |-> 0, by |-> c, list |-> <<>>]
Accept == [type |-> "accept", toState |-> 0, by |-> NullConcat, list |-> <<>>]
Conflict(l) == [type |-> "conflict", toState |-> 0, by |-> NullConcat, list |-> l]

\* an entry of ConflictAction.list: a shift state number or a production
NumEntry(n) == [isNumber |-> TRUE, num |-> n, by |-> NullConcat]
ProdEntry(c) == [isNumber |-> FALSE, num |-> 0, by |-> c]

NewRow(s) == [state |-> s, actions |-> EmptyMap, gotos |-> EmptyMap]

Thrown == [state |-> -1, actions |-> EmptyMap, gotos |-> EmptyMap]

\* makeTable.ts / makeTableLR1.ts getStartSymbol; "" stands for the throw
tableGetStartSymbol(g) ==
  IF hasNonTerminal(g, SBackquote) THEN SBackquote
  ELSE IF hasNonTerminal(g, "S") THEN "S"
  ELSE ""

(***************************************************************************)
(* makeTransitionTable (LR(0))                                             *)
(***************************************************************************)
hasItem(itemSet, item) == getHash(item) \in {getHash(i) : i \in Range(itemSet.lrItems)}

getItems(itemSet) == itemSet.lrItems

\* lrItemSets.findIndex(s => s.hasItem(item)): the first 0-based index of a
\* state holding the item, -1 when none
findIndex(sets, item) ==
  IF \E i \in 1..Len(sets) : hasItem(sets[i], item)
    THEN (CHOOSE i \in 1..Len(sets) :
            hasItem(sets[i], item) /\ \A j \in 1..(i - 1) : ~hasItem(sets[j], item)) - 1
    ELSE -1

incomingEntry(action) == IF action.type = "shift" THEN NumEntry(action.toState) ELSE ProdEntry(action.by)

\* the row-local replaceConflict of makeTransitionTable: the new actions map
replaceConflict0(actions, action, terminal) ==
  IF Has(actions, terminal) /\ actions[terminal].type # "accept"
    THEN LET existing == actions[terminal] IN
         IF existing.type = "conflict"
           THEN [actions EXCEPT ![terminal] = Conflict(Append(existing.list, incomingEntry(action)))]
           ELSE [actions EXCEPT ![terminal] = Conflict(<<incomingEntry(existing), incomingEntry(action)>>)]
    ELSE actions

\* the forEach over getAllTerminals of a reduce item, cell by cell
reduceAllTerminals(actions, terminals, by) ==
  [t \in (DOMAIN actions) \cup terminals |->
     IF t \notin terminals THEN actions[t]
     ELSE IF Has(actions, t) /\ actions[t].type # "accept"
       THEN replaceConflict0(actions, Reduce(by), t)[t]
       ELSE Reduce(by)]

\* the callback of itemSet.getItems().forEach in makeTransitionTable
tableItem0(sets, g, startSymbol, r, item) ==
  LET dotNext == getDotNextElement(item) IN
  IF dotNext # Undefined
    THEN LET nextState == findIndex(sets, advance(item)) IN
         IF nextState = -1 THEN Thrown
         ELSE IF isTerminal(dotNext)
           THEN IF Has(r.actions, dotNext.value)
                  THEN [r EXCEPT !.actions = replaceConflict0(@, Shift(nextState), dotNext.value)]
                  ELSE [r EXCEPT !.actions = Put(@, dotNext.value, Shift(nextState))]
           ELSE [r EXCEPT !.gotos = Put(@, dotNext.value, nextState)]
    ELSE LET left == item.concatenation.left IN
         IF left = startSymbol THEN [r EXCEPT !.actions = Put(@, "$", Accept)]
         ELSE IF Has(r.actions, "$") /\ r.actions["$"].type # "accept"
           THEN [r EXCEPT !.actions = replaceConflict0(@, Reduce(item.concatenation), "$")]
           ELSE LET a1 == reduceAllTerminals(r.actions, getAllTerminals(g), item.concatenation) IN
                [r EXCEPT !.actions = IF Has(a1, "$") THEN a1 ELSE Put(a1, "$", Reduce(item.concatenation))]

(***************************************************************************)
(* makeTransitionTableLR1                                                  *)
(***************************************************************************)
eqConcat(a, b) == a = b

entryEq(x, v) ==
  IF x.isNumber /\ v.isNumber THEN x.num = v.num
  ELSE IF ~x.isNumber /\ ~v.isNumber THEN eqConcat(x.by, v.by)
  ELSE FALSE

conflictPushUnique(list, v) ==
  IF \E i \in 1..Len(list) : entryEq(list[i], v) THEN list ELSE Append(list, v)

replaceConflict(actions, terminal, incoming) ==
  IF ~Has(actions, terminal) THEN actions
  ELSE LET ex == actions[terminal] IN
       IF ex.type = "accept" THEN actions
       ELSE IF ex.type = "shift" /\ incoming.type = "shift" /\ ex.toState = incoming.toState THEN actions
       ELSE IF ex.type = "reduce" /\ incoming.type = "reduce" /\ eqConcat(ex.by, incoming.by) THEN actions
       ELSE IF ex.type = "conflict"
         THEN [actions EXCEPT ![terminal] = Conflict(conflictPushUnique(ex.list, incomingEntry(incoming)))]
         ELSE [actions EXCEPT ![terminal] =
                 Conflict(conflictPushUnique(<<incomingEntry(ex)>>, incomingEntry(incoming)))]

setShift(actions, terminal, to) ==
  IF ~Has(actions, terminal) THEN Put(actions, terminal, Shift(to))
  ELSE IF actions[terminal].type = "shift" /\ actions[terminal].toState = to THEN actions
  ELSE replaceConflict(actions, terminal, Shift(to))

setReduce(actions, terminal, by, isLoose) ==
  IF ~Has(actions, terminal) THEN Put(actions, terminal, Reduce(by))
  ELSE IF isLoose /\ actions[terminal].type = "shift" THEN actions
  ELSE IF actions[terminal].type = "reduce" /\ eqConcat(actions[terminal].by, by) THEN actions
  ELSE replaceConflict(actions, terminal, Reduce(by))

hasCoreItem(s, advanced) == getHash(advanced) \in {getHash(i) : i \in Range(s.lrItems)}

Min(S) == CHOOSE x \in S : \A y \in S : x <= y

\* -1 stands for the throw
findGotoStateForGroup(allSets, groupAdvanced) ==
  LET candidates == {i \in 0..(Len(allSets) - 1) :
                       \A k \in 1..Len(groupAdvanced) : hasCoreItem(allSets[i + 1], groupAdvanced[k])}
  IN IF candidates = {} THEN -1 ELSE Min(candidates)

\* step 1 of a row: the items with a symbol after the dot, grouped by symKey
\* in first-seen order
RECURSIVE groupItems(_, _)
groupItems(items, groups) ==
  IF items = <<>> THEN groups
  ELSE LET item == Head(items)
           nxt == getDotNextElement(item)
           key == <<isTerminal(nxt), nxt.value>>
           i == IF \E k \in 1..Len(groups) : groups[k].key = key
                  THEN CHOOSE k \in 1..Len(groups) : groups[k].key = key ELSE 0
       IN IF nxt = Undefined THEN groupItems(Tail(items), groups)
          ELSE IF i = 0 THEN groupItems(Tail(items), Append(groups, [key |-> key, items |-> <<item>>]))
          ELSE groupItems(Tail(items), [groups EXCEPT ![i].items = Append(@, item)])

\* step 2, the callback of groups.forEach
tableGroup1(sets, itemSet, r, group) ==
  LET isTerm == group.key[1]
      v == group.key[2]
      advanced == [i \in 1..Len(group.items) |-> advance(group.items[i])]
      nextState == IF Has(itemSet.goto, v) THEN itemSet.goto[v]
                   ELSE findGotoStateForGroup(sets, advanced)
  IN IF nextState = -1 THEN Thrown
     ELSE IF isTerm THEN [r EXCEPT !.actions = setShift(@, v, nextState)]
     ELSE IF ~Has(r.gotos, v) THEN [r EXCEPT !.gotos = Put(@, v, nextState)]
     ELSE r

\* findNextStateIndex of the builder that resolves every item by itself
\* (makeTableLR1.ts): the first state that has the advanced item; LR1ItemSet has
\* no hasCoreItem method, and BNFConcatenation neither equals nor a toString of
\* its own, so the last resort compares the dot positions only. -1: not found
findNextStateIndex(sets, advanced) ==
  LET idx == {i \in 0..(Len(sets) - 1) : hasItem1(sets[i + 1].lrItems, advanced)}
      idx3 == {i \in 0..(Len(sets) - 1) :
                 \E it \in Range(sets[i + 1].lrItems) : it.dotPosition = advanced.dotPosition}
  IN IF idx # {} THEN Min(idx) ELSE IF idx3 # {} THEN Min(idx3) ELSE -1

\* the shift / goto branch of that builder's callback for one item
tableShiftItem(sets, r, item) ==
  LET dotNext == getDotNextElement(item)
      nextState == findNextStateIndex(sets, advance(item))
  IN IF nextState = -1 THEN Thrown
     ELSE IF isTerminal(dotNext) THEN [r EXCEPT !.actions = setShift(@, dotNext.value, nextState)]
     ELSE IF ~Has(r.gotos, dotNext.value) THEN [r EXCEPT !.gotos = Put(@, dotNext.value, nextState)]
     ELSE r

\* the shift and goto cells of a row, resolved once per item
RECURSIVE shiftsPerItem(_, _, _)
shiftsPerItem(sets, r, items) ==
  IF items = <<>> \/ r = Thrown THEN r
  ELSE IF getDotNextElement(Head(items)) = Undefined THEN shiftsPerItem(sets, r, Tail(items))
  ELSE shiftsPerItem(sets, tableShiftItem(sets, r, Head(items)), Tail(items))

\* the shift and goto cells of a row, resolved once per symbol group (step 2)
RECURSIVE shiftsPerGroup(_, _, _, _)
shiftsPerGroup(sets, itemSet, r, groups) ==
  IF groups = <<>> \/ r = Thrown THEN r
  ELSE shiftsPerGroup(sets, itemSet, tableGroup1(sets, itemSet, r, Head(groups)), Tail(groups))

\* a variant that reduces on the end marker whatever the item's lookahead
getLookaheadSetEnd(item) == {"$"}

getLookaheadSet(item) == {item.lookahead}

\* step 3, the callback of the second itemSet.getItems().forEach
tableReduce1(startSymbol, isLoose, r, item) ==
  IF getDotNextElement(item) # Undefined THEN r
  ELSE IF item.concatenation.left = startSymbol THEN [r EXCEPT !.actions = Put(@, "$", Accept)]
  ELSE LET t == CHOOSE x \in getLookaheadSet(item) : TRUE IN
       [r EXCEPT !.actions = setReduce(@, t, item.concatenation, isLoose)]

(***************************************************************************)
(* parseProgram                                                            *)
(***************************************************************************)
ParseTreeNode(symbol, children) == [symbol |-> symbol, children |-> children]
NoTree == ParseTreeNode("", <<>>)

\* an element of ParseLogs: a diagnostic string or a ParseLog
LogString(text) == [isString |-> TRUE, text |-> text, tree |-> NoTree, state |-> 0, token |-> ""]
ParseLog(tree, state, token) == [isString |-> FALSE, text |-> "", tree |-> tree, state |-> state, token |-> token]

currentToken(prog, i) == IF i < Len(prog) THEN prog[i + 1] ELSE "$"

\* table[n]: rows are pushed in state order, so row n is table[n + 1]
hasRow(tbl, n) == n >= 0 /\ n < Len(tbl)

\* BNFConcatenation.getRight, the right-hand side popped by a reduce
getRight(concat) == concat.elements

\* one iteration of the while loop: the driver's variables after it and how
\* the loop went on ("" = next iteration)
parseIteration(tbl, prog, st) ==
  LET currentState == Last(st.stack)
      token == currentToken(prog, st.index)
  IN
  IF ~hasRow(tbl, currentState)
    THEN [st EXCEPT !.logs = Append(@, LogString("no table row")), !.outcome = "norow"]
  ELSE LET tableRow == tbl[currentState + 1] IN
  IF ~Has(tableRow.actions, token)
    THEN [st EXCEPT !.logs = Append(@, LogString("no action")), !.outcome = "noaction"]
  ELSE LET action == tableRow.actions[token] IN
  IF action.type = "shift"
    THEN LET syms == Append(st.symbolStack, ParseTreeNode(token, <<>>)) IN
         [st EXCEPT !.stack = Append(@, action.toState),
                    !.symbolStack = syms,
                    !.logs = Append(@, ParseLog(ParseTreeNode("ROOT", syms), currentState, token)),
                    !.index = @ + 1]
  ELSE IF action.type = "reduce"
    THEN LET n == Len(getRight(action.by)) IN
         IF n > Len(st.symbolStack)
           THEN \* symbolStack.pop() returned undefined: throw
                [st EXCEPT !.stack = DropLast(@, IF n > Len(@) THEN Len(@) ELSE n),
                           !.symbolStack = <<>>, !.outcome = "throw"]
           ELSE LET children == SubSeq(st.symbolStack, Len(st.symbolStack) - n + 1, Len(st.symbolStack))
                    newNode == ParseTreeNode(action.by.left, children)
                    syms == Append(DropLast(st.symbolStack, n), newNode)
                    popped == DropLast(st.stack, IF n > Len(st.stack) THEN Len(st.stack) ELSE n)
                IN IF popped = <<>> \/ ~hasRow(tbl, Last(popped))
                     THEN \* table[currentState] is undefined: TypeError
                          [st EXCEPT !.stack = popped, !.symbolStack = syms, !.outcome = "throw"]
                     ELSE LET exposed == Last(popped) IN
                          IF ~Has(tbl[exposed + 1].gotos, action.by.left)
                            THEN [st EXCEPT !.stack = popped, !.symbolStack = syms,
                                            !.logs = Append(@, LogString("no goto")),
                                            !.outcome = "nogoto"]
                            ELSE [st EXCEPT !.stack = Append(popped, tbl[exposed + 1].gotos[action.by.left]),
                                            !.symbolStack = syms,
                                            !.logs = Append(@, ParseLog(ParseTreeNode("ROOT", syms),
                                                                       exposed, action.by.left))]
  ELSE IF action.type = "accept"
    THEN [st EXCEPT !.logs = Append(@, ParseLog(ParseTreeNode("ROOT", st.symbolStack), currentState, token)),
                    !.outcome = "accept"]
  ELSE [st EXCEPT !.logs = Append(@, LogString("unknown action type")), !.outcome = "unknown"]

\* the code after the loop: the trace parseProgram returns
finishLogs(syms, lg) ==
  IF Len(syms) # 1 /\ Len(lg) > 0 /\ ~Last(lg).isString
    THEN [lg EXCEPT ![Len(lg)] = ParseLog(ParseTreeNode("ROOT", syms), Last(lg).state, Last(lg).token)]
    ELSE lg

(***************************************************************************)
(* The pipeline of MainPage: automaton, table, parse                       *)
(***************************************************************************)
RECURSIVE SeqsUpTo(_, _)
SeqsUpTo(S, n) ==
  IF n = 0 THEN {<<>>}
  ELSE LET shorter == SeqsUpTo(S, n - 1) IN
       shorter \cup {Append(p, x) : p \in {q \in shorter : Len(q) = n - 1}, x \in S}

Programs(g) == SeqsUpTo(getAllTerminals(g), MaxProgramLen)

isLR0 == algorithm = "LR0"
isLoose == algorithm = "LR1-L"

Init ==
  /\ bnfSet \in Grammars
  /\ algorithm \in Algorithms
  /\ pc = "start"
  /\ itemSets = <<>> /\ que = <<>> /\ nodeHash = EmptyMap /\ firstSet = EmptyMap
  /\ table = <<>> /\ row = NewRow(0) /\ stateIndex = 0 /\ itemIndex = 0
  /\ program = <<>> /\ stack = <<>> /\ symbolStack = <<>> /\ logs = <<>>
  /\ index = 0 /\ outcome = ""
  /\ bnf = <<>> /\ bnfWarnings = <<>> /\ builds = <<>>

\* lr0(bnfSet): LRItemSets.startCalculation up to the first queue entry
StartCalculation ==
  /\ pc = "start" /\ isLR0
  /\ LET start == getStartSymbol(bnfSet) IN
     /\ bnfSet' = start.bnfs
     /\ itemSets' = <<LRItemSet(<<LRItem(start.concat, 0, "")>>)>>
  /\ que' = <<0>>
  /\ nodeHash' = EmptyMap
  /\ pc' = "automaton"
  /\ UNCHANGED <<algorithm, firstSet, tableVars, parseVars>>
  /\ UNCHANGED <<textVars, builds>>

\* lr1(bnfSet): first() and LR1ItemSets.startCalculation up to the first queue entry
StartCalculationLR1 ==
  /\ pc = "start" /\ ~isLR0
  /\ LET startLeft == IF hasNonTerminal(bnfSet, SBackquote) THEN SBackquote ELSE "S"
         prods == getBNFbyLeft(bnfSet, startLeft)
     IN /\ Len(prods) > 0
        /\ itemSets' = <<LR1ItemSet(<<LRItem(prods[1], 0, "$")>>)>>
  /\ firstSet' = first(bnfSet)
  /\ que' = <<0>>
  /\ nodeHash' = EmptyMap
  /\ pc' = "automaton"
  /\ UNCHANGED <<bnfSet, algorithm, tableVars, parseVars>>
  /\ UNCHANGED <<textVars, builds>>

\* one iteration of the while loop of LRItemSets.calcClosure
CalcClosure ==
  /\ pc = "automaton" /\ isLR0 /\ que # <<>>
  /\ LET front == Head(que)
         cl == closure(bnfSet, itemSets[front + 1])
         st == calcEntries(front, cl.rv,
                 [itemSets |-> [itemSets EXCEPT ![front + 1].lrItems = cl.lrItems],
                  nodeHash |-> nodeHash, que |-> Tail(que)])
     IN /\ itemSets' = st.itemSets
        /\ nodeHash' = st.nodeHash
        /\ que' = st.que
  /\ UNCHANGED <<bnfSet, algorithm, pc, firstSet, tableVars, parseVars>>
  /\ UNCHANGED <<textVars, builds>>

\* one iteration of the while loop of LR1ItemSets.calcClosure
CalcClosureLR1 ==
  /\ pc = "automaton" /\ ~isLR0 /\ que # <<>>
  /\ LET front == Head(que)
         cl == closure1(bnfSet, firstSet, itemSets[front + 1])
         st == calcEntries1(front, cl.rv,
                 [itemSets |-> [itemSets EXCEPT ![front + 1].lrItems = cl.lrItems],
                  nodeHash |-> nodeHash, que |-> Tail(que)])
     IN /\ itemSets' = st.itemSets
        /\ nodeHash' = st.nodeHash
        /\ que' = st.que
  /\ UNCHANGED <<bnfSet, algorithm, pc, firstSet, tableVars, parseVars>>
  /\ UNCHANGED <<textVars, builds>>

\* makeTransitionTable / makeTransitionTableLR1 entered with the finished automaton
MakeTable ==
  /\ pc = "automaton" /\ que = <<>>
  /\ tableGetStartSymbol(bnfSet) # ""
  /\ table' = <<>> /\ row' = NewRow(0) /\ stateIndex' = 0 /\ itemIndex' = 0
  /\ pc' = "table"
  /\ UNCHANGED <<bnfSet, algorithm, autoVars, parseVars>>
  /\ UNCHANGED <<textVars, builds>>

curSet == itemSets[stateIndex + 1]
curGroups == groupItems(getItems(curSet), <<>>)
rowWork == IF isLR0 THEN Len(getItems(curSet)) ELSE Len(curGroups) + Len(getItems(curSet))

\* the row after the next callback of the row's forEach loops
nextRow ==
  IF isLR0
    THEN tableItem0(itemSets, bnfSet, tableGetStartSymbol(bnfSet), row, getItems(curSet)[itemIndex + 1])
  ELSE IF itemIndex < Len(curGroups)
    THEN tableGroup1(itemSets, curSet, row, curGroups[itemIndex + 1])
  ELSE tableReduce1(tableGetStartSymbol(bnfSet), isLoose, row,
                    getItems(curSet)[itemIndex - Len(curGroups) + 1])

\* one callback of a forEach over the items (or groups) of the current state
TableItem ==
  /\ pc = "table" /\ itemIndex < rowWork
  /\ IF nextRow = Thrown
       THEN /\ pc' = "tableThrown" /\ table' = <<>>
            /\ UNCHANGED <<row, itemIndex>>
       ELSE /\ row' = nextRow /\ itemIndex' = itemIndex + 1
            /\ UNCHANGED <<pc, table>>
  /\ UNCHANGED <<bnfSet, algorithm, autoVars, stateIndex, parseVars>>
  /\ UNCHANGED <<textVars, builds>>

\* table.push(row), and the next state's fresh row
PushRow ==
  /\ pc = "table" /\ itemIndex = rowWork
  /\ table' = Append(table, row)
  /\ stateIndex' = stateIndex + 1
  /\ row' = NewRow(stateIndex + 1)
  /\ itemIndex' = 0
  /\ pc' = IF stateIndex + 1 = Len(itemSets) THEN "ready" ELSE "table"
  /\ UNCHANGED <<bnfSet, algorithm, autoVars, parseVars>>
  /\ UNCHANGED <<textVars, builds>>

\* parseProgram(tokens, table) called: its variables before the loop. The
\* driver reads the table and the tokens only, so it is explored on the table
\* of the first build; a later build adds no table of another shape.
StartParse ==
  /\ pc = "ready" /\ builds = <<>>
  /\ \E p \in Programs(bnfSet) : program' = p
  /\ stack' = <<0>> /\ symbolStack' = <<>> /\ logs' = <<>> /\ index' = 0 /\ outcome' = ""
  /\ pc' = "parse"
  /\ UNCHANGED <<bnfSet, algorithm, autoVars, tableVars>>
  /\ UNCHANGED <<textVars, builds>>

\* one iteration of the while loop of parseProgram
\* a variant of the iteration whose reduce pushes the goto state without
\* taking the states of the right-hand side off the state stack
ParseStepKeepStates ==
  /\ pc = "parse" /\ outcome = "" /\ Len(logs) < MaxLogs
  /\ LET st == parseIteration(table, program,
                 [stack |-> stack, symbolStack |-> symbolStack, logs |-> logs,
                  index |-> index, outcome |-> ""])
     IN /\ stack' = IF st.outcome = "" /\ st.index = index
                      THEN Append(stack, Last(st.stack)) ELSE st.stack
        /\ symbolStack' = st.symbolStack /\ logs' = st.logs
        /\ index' = st.index /\ outcome' = st.outcome
  /\ UNCHANGED <<bnfSet, algorithm, pc, autoVars, tableVars, program>>
  /\ UNCHANGED <<textVars, builds>>

\* a variant of the iteration that takes the first entry of a Conflict cell
\* as the action
ParseStepResolve ==
  /\ pc = "parse" /\ outcome = "" /\ Len(logs) < MaxLogs
  /\ LET cur == Last(stack)
         tok == currentToken(program, index)
         resolved ==
           IF hasRow(table, cur) /\ Has(table[cur + 1].actions, tok)
                /\ table[cur + 1].actions[tok].type = "conflict"
             THEN [table EXCEPT ![cur + 1].actions[tok] =
                     IF Head(@.list).isNumber THEN Shift(Head(@.list).num)
                     ELSE Reduce(Head(@.list).by)]
             ELSE table
         st == parseIteration(resolved, program,
                 [stack |-> stack, symbolStack |-> symbolStack, logs |-> logs,
                  index |-> index, outcome |-> ""])
     IN /\ stack' = st.stack /\ symbolStack' = st.symbolStack /\ logs' = st.logs
        /\ index' = st.index /\ outcome' = st.outcome
  /\ UNCHANGED <<bnfSet, algorithm, pc, autoVars, tableVars, program>>
  /\ UNCHANGED <<textVars, builds>>

\* a variant of the iteration whose reduce collects the children with push
\* instead of unshift: a new node has its children in pop order
ParseStepPopOrder ==
  /\ pc = "parse" /\ outcome = "" /\ Len(logs) < MaxLogs
  /\ LET st == parseIteration(table, program,
                 [stack |-> stack, symbolStack |-> symbolStack, logs |-> logs,
                  index |-> index, outcome |-> ""])
         top == Len(st.symbolStack)
     IN /\ stack' = st.stack /\ logs' = st.logs
        /\ index' = st.index /\ outcome' = st.outcome
        /\ symbolStack' = IF st.symbolStack = symbolStack \/ top = 0 THEN st.symbolStack
                          ELSE [st.symbolStack EXCEPT ![top].children =
                                  [i \in 1..Len(@) |-> @[Len(@) - i + 1]]]
  /\ UNCHANGED <<bnfSet, algorithm, pc, autoVars, tableVars, program>>
  /\ UNCHANGED <<textVars, builds>>

\* The loop has no iteration limit in the source; the trace is explored up to
\* MaxLogs entries.
ParseStep ==
  /\ pc = "parse" /\ outcome = "" /\ Len(logs) < MaxLogs
  /\ LET st == parseIteration(table, program,
                 [stack |-> stack, symbolStack |-> symbolStack, logs |-> logs,
                  index |-> index, outcome |-> ""])
     IN /\ stack' = st.stack /\ symbolStack' = st.symbolStack /\ logs' = st.logs
        /\ index' = st.index /\ outcome' = st.outcome
  /\ UNCHANGED <<bnfSet, algorithm, pc, autoVars, tableVars, program>>
  /\ UNCHANGED <<textVars, builds>>

\* the loop was left by break: the root fix-up, and the return
ParseReturn ==
  /\ pc = "parse" /\ outcome \notin {"", "throw"}
  /\ logs' = finishLogs(symbolStack, logs)
  /\ pc' = "returned"
  /\ UNCHANGED <<bnfSet, algorithm, autoVars, tableVars, program, stack, symbolStack, index, outcome>>
  /\ UNCHANGED <<textVars, builds>>

\* the automaton effect of MainPage runs again on the same BNFSet object: its
\* dependency algorithm changed, or lr0 / lr1 is called once more
Rebuild ==
  /\ pc = "ready" /\ itemSets # <<>> /\ Len(builds) + 1 < MaxBuilds
  /\ builds' = Append(builds, [algorithm |-> algorithm, itemSets |-> itemSets])
  /\ algorithm' \in Algorithms
  /\ pc' = "start"
  /\ itemSets' = <<>> /\ que' = <<>> /\ nodeHash' = EmptyMap /\ firstSet' = EmptyMap
  /\ table' = <<>> /\ row' = NewRow(0) /\ stateIndex' = 0 /\ itemIndex' = 0
  /\ UNCHANGED <<bnfSet, parseVars, textVars>>

Next ==
  \/ StartCalculation
  \/ StartCalculationLR1
  \/ CalcClosure
  \/ CalcClosureLR1
  \/ MakeTable
  \/ TableItem
  \/ PushRow
  \/ StartParse
  \/ ParseStep
  \/ ParseReturn
  \/ Rebuild

Spec == Init /\ [][Next]_vars

\* The while loops run in one thread and no iteration waits for anything: an
\* iteration that can run does run. For calcClosure this is weak fairness of
\* the iteration written out, WF_vars(A) being []<>~ENABLED <<A>>_vars \/
\* []<><<A>>_vars: an iteration always takes the front entry off the queue,
\* so it is enabled exactly when the loop condition que.length > 0 holds.
CalcClosureEnabled == pc = "automaton" /\ que # <<>>

FairCalcClosure ==
  \/ []<>(~CalcClosureEnabled)
  \/ []<><<CalcClosure \/ CalcClosureLR1>>_vars

Fairness == FairCalcClosure /\ WF_vars(ParseStep)

SpecLive == Init /\ [][Next]_vars /\ Fairness

\* parseProgram is exported and takes any TransitionTable: a table written by
\* hand over the tokens of GList, next to the tables the builders make
LtoN == BNFConcatenation("L", <<T("n")>>)
HandTable ==
  << [state |-> 0, actions |-> Put(Put(EmptyMap, "n", Shift(1)), "e", Reduce(LtoN)), gotos |-> EmptyMap],
     [state |-> 1, actions |-> Put(Put(EmptyMap, "$", Reduce(LtoN)), "n", Shift(5)), gotos |-> EmptyMap] >>

\* a table without goto entries whose reduce is reached with two trees stacked
HandTableNoGoto ==
  << [state |-> 0, actions |-> Put(EmptyMap, "n", Shift(1)), gotos |-> EmptyMap],
     [state |-> 1, actions |-> Put(Put(EmptyMap, "$", Reduce(LtoN)), "n", Shift(1)), gotos |-> EmptyMap] >>

InitAnyTable ==
  \/ Init
  \/ /\ bnfSet = GList /\ algorithm = "LR0" /\ pc = "ready"
     /\ itemSets = <<>> /\ que = <<>> /\ nodeHash = EmptyMap /\ firstSet = EmptyMap
     /\ table \in {HandTable, HandTableNoGoto} /\ row = NewRow(0) /\ stateIndex = 0 /\ itemIndex = 0
     /\ program = <<>> /\ stack = <<>> /\ symbolStack = <<>> /\ logs = <<>>
     /\ index = 0 /\ outcome = ""
     /\ bnf = <<>> /\ bnfWarnings = <<>> /\ builds = <<>>

SpecAnyTable == InitAnyTable /\ [][Next]_vars

(***************************************************************************)
(* The grammar text: parseRawBnf and getRawBNFWarningThrows. A string of   *)
(* the text is a sequence of characters; EpsChar is the Greek letter the   *)
(* source compares with. The text is kept as its sequence of lines.        *)
(***************************************************************************)
EpsChar == Epsilon

\* the string a sequence of characters spells
RECURSIVE Text(_)
Text(s) == IF s = <<>> THEN "" ELSE Head(s) \o Text(Tail(s))

RECURSIVE trimStart(_)
trimStart(s) == IF s # <<>> /\ Head(s) = " " THEN trimStart(Tail(s)) ELSE s

RECURSIVE trimEnd(_)
trimEnd(s) == IF s # <<>> /\ Last(s) = " " THEN trimEnd(DropLast(s, 1)) ELSE s

trim(s) == trimEnd(trimStart(s))

startsWithAt(s, sep, i) == i + Len(sep) - 1 <= Len(s) /\ SubSeq(s, i, i + Len(sep) - 1) = sep

\* String.split(sep): from is where the current part starts, i the scan position
RECURSIVE splitFrom(_, _, _, _)
splitFrom(s, sep, from, i) ==
  IF i > Len(s) THEN <<SubSeq(s, from, Len(s))>>
  ELSE IF startsWithAt(s, sep, i)
    THEN <<SubSeq(s, from, i - 1)>> \o splitFrom(s, sep, i + Len(sep), i + Len(sep))
  ELSE splitFrom(s, sep, from, i + 1)

split(s, sep) == splitFrom(s, sep, 1, 1)

RECURSIVE skipSpaces(_, _)
skipSpaces(s, i) == IF i <= Len(s) /\ s[i] = " " THEN skipSpaces(s, i + 1) ELSE i

\* String.split(/\s+/)
RECURSIVE splitWsFrom(_, _, _)
splitWsFrom(s, from, i) ==
  IF i > Len(s) THEN <<SubSeq(s, from, Len(s))>>
  ELSE IF s[i] = " "
    THEN <<SubSeq(s, from, i - 1)>> \o splitWsFrom(s, skipSpaces(s, i), skipSpaces(s, i))
  ELSE splitWsFrom(s, from, i + 1)

splitWs(s) == splitWsFrom(s, 1, 1)

includes(s, c) == \E i \in 1..Len(s) : s[i] = c

startsWith(s, c) == s # <<>> /\ Head(s) = c

endsWith(s, c) == s # <<>> /\ Last(s) = c

\* String.slice(start, -fromEnd)
slice(s, start, fromEnd) == SubSeq(s, start + 1, Len(s) - fromEnd)

\* the body of symbols.forEach: the element built from one symbol. The
\* epsilon test is an if of its own; the chain after it assigns type and
\* value again in every branch. The throw for a symbol that contains epsilon
\* among other characters is not reached: parseLine has thrown for such an
\* alternative before.
parseSymbol(sym) ==
  LET element == IF sym = <<EpsChar>> THEN BNFElement("terminal", "") ELSE BNFElement("", "") IN
  IF startsWith(sym, "'") /\ endsWith(sym, "'")
    THEN [element EXCEPT !.type = "terminal", !.value = Text(slice(sym, 1, 1))]
  ELSE IF endsWith(sym, "?")
    THEN [element EXCEPT !.type = "nonterminal", !.value = Text(slice(sym, 0, 1))]
  ELSE IF endsWith(sym, "*")
    THEN [element EXCEPT !.type = "nonterminal", !.value = Text(slice(sym, 0, 1))]
  ELSE IF endsWith(sym, "+")
    THEN [element EXCEPT !.type = "nonterminal", !.value = Text(slice(sym, 0, 1))]
  ELSE [element EXCEPT !.type = "nonterminal", !.value = Text(sym)]

\* new Error(`${index}\n` + text): the message as its lines, and the string
\* the text was built around
ParseError(idx, text, about) == <<ToString(idx), [text |-> text, symbol |-> Text(about)]>>

\* the symbols of one alternative
symbolsOf(part) == splitWs(part)

\* rightParts.forEach: the BNFConcatenation of one alternative
parsePart(leftName, part) ==
  BNFConcatenation(leftName, [k \in 1..Len(symbolsOf(part)) |-> parseSymbol(symbolsOf(part)[k])])

\* right.split("|").map(trim)
rightPartsOf(right) == [i \in 1..Len(split(right, <<"|">>)) |-> trim(split(right, <<"|">>)[i])]

\* the callback of lines.forEach for a line that is not blank
parseLine(line, idx) ==
  LET parts == split(line, <<"-", ">">>)
      leftStr == trim(parts[1])
      right == IF Len(parts) > 1 THEN trim(parts[2]) ELSE <<>>
      rightParts == rightPartsOf(right)
      mixed == {i \in 1..Len(rightParts) : includes(rightParts[i], EpsChar) /\ rightParts[i] # <<EpsChar>>}
  IN IF leftStr = <<>> \/ right = <<>>
       THEN [thrown |-> TRUE, message |-> ParseError(idx, "invalid rule", line), rule |-> BNF("", <<>>)]
     ELSE IF leftStr = <<EpsChar>>
       THEN [thrown |-> TRUE, message |-> ParseError(idx, "epsilon on the left", line), rule |-> BNF("", <<>>)]
     ELSE IF mixed # {}
       THEN [thrown |-> TRUE, rule |-> BNF("", <<>>),
             message |-> ParseError(idx, "epsilon not alone", rightParts[Min(mixed)])]
     ELSE [thrown |-> FALSE, message |-> <<>>,
           rule |-> [left |-> Text(leftStr), line |-> idx,
                     right |-> [i \in 1..Len(rightParts) |-> parsePart(Text(leftStr), rightParts[i])]]]

RECURSIVE parseLines(_, _, _)
parseLines(lines, idx, bnfs) ==
  IF idx >= Len(lines) THEN [thrown |-> FALSE, message |-> <<>>, bnfs |-> bnfs]
  ELSE IF trim(lines[idx + 1]) = <<>> THEN parseLines(lines, idx + 1, bnfs)
  ELSE LET r == parseLine(trim(lines[idx + 1]), idx) IN
       IF r.thrown THEN [thrown |-> TRUE, message |-> r.message, bnfs |-> <<>>]
       ELSE parseLines(lines, idx + 1, Append(bnfs, r.rule))

parseRawBnf(lines) == parseLines(lines, 0, <<>>)

\* parseInt of the first line of a message
parseInt(s) == CHOOSE n \in 0..MaxLines : ToString(n) = s

UpperChars == {"A", "B", "C", "D", "E", "F", "G", "H", "I", "J", "K", "L", "M", "N", "O",
               "P", "Q", "R", "S", "T", "U", "V", "W", "X", "Y", "Z", "_"}

\* the strings of capitals and underscores, up to the longest name of the texts
UpperNames == {Text(s) : s \in UNION {[1..n -> UpperChars] : n \in 0..MaxNameLen}}

\* /[^A-Z_]/.test(value)
hasNonUpper(value) == value \notin UpperNames

\* one entry of BNFError; the error text is kept as its fixed wording and the
\* string it quotes
Diagnostic(text, symbol, line, isError) ==
  [error |-> [text |-> text, symbol |-> symbol], line |-> line, isError |-> isError]

\* the catch block: the diagnostic made from the message of the thrown Error
caughtDiagnostic(message) ==
  [error |-> message[2],
   line |-> IF message[1] # "" THEN parseInt(message[1]) ELSE 0,
   isError |-> TRUE]

\* the elements the nested forEach loops over getBNFs(), getRight() and
\* getElements() visit, in order
AllElements(g) ==
  Flatten([i \in 1..Len(g) |-> Flatten([k \in 1..Len(g[i].right) |-> g[i].right[k].elements])])

\* the sets terminals and nonTerminals collected from the right-hand sides
usedTerminals(g) == {e.value : e \in {x \in Range(AllElements(g)) : x.type = "terminal"}}

usedNonTerminals(g) == {e.value : e \in {x \in Range(AllElements(g)) : x.type # "terminal"}}

\* definedNonTerminals, in insertion order
definedNonTerminals(g) == SetAddAll(<<>>, [i \in 1..Len(g) |-> g[i].left])

\* nonTerminalsLeftLine.get(nt): Map.set keeps the line of the last rule of nt
nonTerminalsLeftLine(g, nt) == g[CHOOSE i \in 1..Len(g) : g[i].left = nt /\ \A j \in (i + 1)..Len(g) : g[j].left # nt].line

\* the checks of one element in the validation loop; idx is the index the
\* forEach over getBNFs() passes to its callback
checkElement(elem, idx, g) ==
  IF elem.type = "nonterminal" /\ hasNonUpper(elem.value)
     /\ elem.value \notin usedTerminals(g) /\ elem.value # Epsilon
    THEN <<Diagnostic("badly named nonterminal", elem.value, idx, TRUE)>>
  ELSE IF elem.type = "nonterminal" /\ elem.value = ""
    THEN <<Diagnostic("empty nonterminal", "", idx, TRUE)>>
  ELSE IF elem.type = "nonterminal" /\ elem.value \notin Range(definedNonTerminals(g))
          /\ elem.value # Epsilon
    THEN <<Diagnostic("undefined nonterminal", elem.value, idx, TRUE)>>
  ELSE <<>>

checkRule(g, i) ==
  LET elems == Flatten([k \in 1..Len(g[i].right) |-> g[i].right[k].elements])
  IN Flatten([k \in 1..Len(elems) |-> checkElement(elems[k], i - 1, g)])

\* definedNonTerminals.forEach: the unused nonterminals; `x || -1` is -1 for 0
checkUnused(g, nt) ==
  IF nt = "S" \/ nt \in usedNonTerminals(g) THEN <<>>
  ELSE <<Diagnostic("unused nonterminal", nt,
                    IF nonTerminalsLeftLine(g, nt) # 0 THEN nonTerminalsLeftLine(g, nt) ELSE -1,
                    FALSE)>>

getRawBNFWarningThrows(lines) ==
  LET r == parseRawBnf(lines)
      g == IF r.thrown THEN <<>> ELSE r.bnfs
      defined == definedNonTerminals(g)
  IN (IF r.thrown THEN <<caughtDiagnostic(r.message)>> ELSE <<>>)
     \o Flatten([i \in 1..Len(g) |-> checkRule(g, i)])
     \o Flatten([k \in 1..Len(defined) |-> checkUnused(g, defined[k])])
     \o (IF Len(g) > 0 /\ g[1].left # "S"
           THEN <<Diagnostic("first rule is not S", "", 0, TRUE)>> ELSE <<>>)

\* lines of grammar text
\* a line of one space
LineBlank == <<" ">>

\* S -> B | 'x'
LineSB == <<"S", " ", "-", ">", " ", "B", " ", "|", " ", "'", "x", "'">>

\* B -> A A?
LineBAA == <<"B", " ", "-", ">", " ", "A", " ", "A", "?">>

\* A -> 'a' A | (epsilon)
LineAeps == <<"A", " ", "-", ">", " ", "'", "a", "'", " ", "A", " ", "|", " ", "epsilon">>

\* S -> A
LineSA == <<"S", " ", "-", ">", " ", "A">>

\* S B
LineNoArrow == <<"S", " ", "B">>

\* (epsilon) -> A
LineEpsLeft == <<"epsilon", " ", "-", ">", " ", "A">>

\* A -> (epsilon) 'a'
LineEpsMixed == <<"A", " ", "-", ">", " ", "epsilon", " ", "'", "a", "'">>

\* U -> 'u'
LineU == <<"U", " ", "-", ">", " ", "'", "u", "'">>

\* S -> b+
LineLower == <<"S", " ", "-", ">", " ", "b", "+">>

\* S -> B 'c'
LineSBc == <<"S", " ", "-", ">", " ", "B", " ", "'", "c", "'">>

\* B -> (epsilon)
LineBeps == <<"B", " ", "-", ">", " ", "epsilon">>

Lines == {LineBlank, LineSB, LineBAA, LineAeps, LineSA, LineNoArrow, LineEpsLeft, LineEpsMixed, LineU, LineLower,
          LineSBc, LineBeps}

\* the grammar texts: up to MaxLines lines
Texts == UNION {[1..n -> Lines] : n \in 1..MaxLines}

InitBnf ==
  /\ pc = "text"
  /\ bnf \in Texts
  /\ bnfWarnings = <<>> /\ bnfSet = <<>> /\ builds = <<>>
  /\ algorithm = "LR1"
  /\ itemSets = <<>> /\ que = <<>> /\ nodeHash = EmptyMap /\ firstSet = EmptyMap
  /\ table = <<>> /\ row = NewRow(0) /\ stateIndex = 0 /\ itemIndex = 0
  /\ program = <<>> /\ stack = <<>> /\ symbolStack = <<>> /\ logs = <<>>
  /\ index = 0 /\ outcome = ""

\* the two useMemo of MainPage: the diagnostics of the text, and the grammar
\* handed to the builders
ParseBnf ==
  /\ pc = "text"
  /\ bnfWarnings' = getRawBNFWarningThrows(bnf)
  /\ bnfSet' = IF Len(getRawBNFWarningThrows(bnf)) = 0 THEN parseRawBnf(bnf).bnfs ELSE <<>>
  /\ pc' = "parsed"
  /\ UNCHANGED <<bnf, builds, algorithm, autoVars, tableVars, parseVars>>

\* first(bnfSet), as lr1 calls it on the grammar it is handed
ComputeFirst ==
  /\ pc = "parsed"
  /\ firstSet' = first(bnfSet)
  /\ pc' = "first"
  /\ UNCHANGED <<bnfSet, algorithm, itemSets, que, nodeHash, tableVars, parseVars, textVars, builds>>

NextBnf ==
  \/ ParseBnf
  \/ ComputeFirst

SpecBnf == InitBnf /\ [][NextBnf]_vars

(***************************************************************************)
(* Properties                                                              *)
(***************************************************************************)
\* the rows built so far: the pushed ones and, while a row is filled, that row
Rows == IF pc = "table" THEN Append(table, row) ELSE table

\* a builder returned the table of the automaton in itemSets
Finished == pc \in {"ready", "parse", "returned"} /\ itemSets # <<>>

isComplete(item) == getDotNextElement(item) = Undefined

\* the productions a cell reduces by, alone or inside a Conflict
ReducesOf(cell) ==
  IF cell.type = "reduce" THEN {cell.by}
  ELSE IF cell.type = "conflict" THEN {e.by : e \in {x \in Range(cell.list) : ~x.isNumber}}
  ELSE {}

\* the shift states of a cell, alone or inside a Conflict
ShiftsOf(cell) ==
  IF cell.type = "shift" THEN {cell.toState}
  ELSE IF cell.type = "conflict" THEN {e.num : e \in {x \in Range(cell.list) : x.isNumber}}
  ELSE {}

\* the grammar the pipeline was started with (lr0 may have appended a rule)
InputIs(G) == Len(bnfSet) >= Len(G) /\ SubSeq(bnfSet, 1, Len(G)) = G

\* sentences of the input grammar, written out by derivation
Sentences ==
  IF InputIs(GList) THEN {<<"n", "e">>}
  ELSE IF InputIs(GNest) THEN {<<"a", "b">>}
  ELSE IF InputIs(GGoto) THEN {<<"f">>, <<"f", "m">>, <<"p", "f">>, <<"p", "f", "m">>}
  ELSE IF InputIs(GElse) THEN {<<"x">>, <<"i", "x">>, <<"i", "i", "x">>}
  ELSE IF InputIs(GRR) THEN {<<"a", "c">>, <<"q", "a", "d">>}
  ELSE IF InputIs(GDollar) THEN {<<"a">>, <<"a", "$">>, <<"a", "b">>}
  ELSE IF InputIs(GLeft) THEN {}
  ELSE IF InputIs(GCycle) THEN {<<"a">>}
  ELSE IF InputIs(GSeq) THEN {<<"a", "b">>, <<"a", "c">>}
  ELSE IF InputIs(GOrder) THEN {<<"p", "x", "u">>, <<"p", "x", "v">>, <<"q", "x", "u">>, <<"q", "x", "v">>}
  ELSE {<<"a">>, <<"p", "a">>, <<"p", "p", "a">>}

StartLabels == {"S", SDash, SBackquote}

\* C1: whenever parseProgram ends in accept on a sentence of the grammar, with
\* a table of either builder, the symbol stack holds exactly one tree node and
\* its label is the (augmented) start symbol
C1_AcceptLeavesStartNode ==
  (Finished /\ outcome = "accept" /\ program \in Sentences)
    => (Len(symbolStack) = 1 /\ symbolStack[1].symbol \in StartLabels)

\* C2: parseProgram never throws, whatever the tokens and the table; a missing
\* row, action or goto ends the returned trace with a diagnostic string
C2_NeverThrows ==
  /\ outcome # "throw"
  /\ (pc = "returned" /\ outcome \in {"norow", "noaction", "nogoto"})
       => (logs # <<>> /\ Last(logs).isString)

C4_ReduceInEveryCell ==
  (Finished /\ isLR0) =>
    \A i \in 1..Len(table) : \A item \in Range(getItems(itemSets[i])) :
      (isComplete(item) /\ item.concatenation.left # tableGetStartSymbol(bnfSet)) =>
        \A t \in getAllTerminals(bnfSet) \cup {"$"} :
          /\ Has(table[i].actions, t)
          /\ \/ table[i].actions[t].type = "accept"
             \/ item.concatenation \in ReducesOf(table[i].actions[t])

\* C5: in the LR(1) table, Reduce(A -> gamma) is in cell (s, t), alone or in a
\* Conflict, only if state s holds the item [A -> gamma ., t]
C5_ReduceOnlyOnLookahead ==
  (~isLR0 /\ itemSets # <<>>) =>
    \A i \in 1..Len(Rows) : \A t \in DOMAIN Rows[i].actions :
      \A c \in ReducesOf(Rows[i].actions[t]) :
        \E item \in Range(getItems(itemSets[i])) :
          isComplete(item) /\ item.concatenation = c /\ item.lookahead = t

\* an LR(1) row reduces on one terminal and leaves another terminal's cell empty
C5_Witness ==
  /\ ~isLR0 /\ pc = "ready"
  /\ \E i \in 1..Len(table) :
       /\ \E t \in DOMAIN table[i].actions : table[i].actions[t].type = "reduce"
       /\ \E t \in getAllTerminals(bnfSet) \cup {"$"} : ~Has(table[i].actions, t)

IsPrefix(a, b) == Len(a) <= Len(b) /\ SubSeq(b, 1, Len(a)) = a

\* no two entries of the list are equal as conflictPushUnique compares them
NoDuplicates(list) ==
  \A i \in 1..Len(list) : \A j \in 1..Len(list) : i # j => ~entryEq(list[i], list[j])

ConflictListsOf(rows) ==
  {rows[i].actions[t].list : <<i, t>> \in
     {x \in (1..Len(rows)) \X (getAllTerminals(bnfSet) \cup {"$"}) :
        Has(rows[x[1]].actions, x[2]) /\ rows[x[1]].actions[x[2]].type = "conflict"}}

\* the current row takes one more write
SameRow == pc = "table" /\ pc' = "table" /\ stateIndex' = stateIndex

\* the complete items of state i (1-based) that reduce on terminal t
ReducersOn(i, t) ==
  {item \in Range(getItems(itemSets[i])) :
     /\ isComplete(item)
     /\ item.concatenation.left # tableGetStartSymbol(bnfSet)
     /\ item.lookahead = t}

C6_StaysConflict ==
  (~isLR0 /\ SameRow) =>
    \A t \in DOMAIN row.actions :
      row.actions[t].type = "conflict" =>
        /\ row'.actions[t].type = "conflict"
        /\ IsPrefix(row.actions[t].list, row'.actions[t].list)

C6_TwoReduces ==
  (Finished /\ ~isLR0) =>
    \A i \in 1..Len(table) : \A t \in getAllTerminals(bnfSet) \cup {"$"} :
      \A a \in ReducersOn(i, t) : \A b \in ReducersOn(i, t) :
        a.concatenation # b.concatenation =>
          /\ Has(table[i].actions, t)
          /\ table[i].actions[t].type = "conflict"
          /\ {a.concatenation, b.concatenation} \subseteq ReducesOf(table[i].actions[t])

\* C6: in makeTransitionTableLR1 a cell that holds Conflict stays Conflict
\* until the table is finished, its list only grows at the end and never holds
\* two equal entries, and two reduces by different productions on one cell
\* always give a Conflict listing both
C6_ConflictKept ==
  /\ [][C6_StaysConflict]_vars
  /\ [](~isLR0 => \A l \in ConflictListsOf(Rows) : NoDuplicates(l))
  /\ []C6_TwoReduces

\* C7: in makeTransitionTable (LR(0)) a cell becomes Conflict only when a
\* different action is written to it: no Conflict list holds the same shift
\* state or the same production twice
C7_NoRepeatedEntry ==
  isLR0 => \A l \in ConflictListsOf(Rows) : Len(l) >= 2 /\ NoDuplicates(l)

HoldsAccept(actions) == Has(actions, "$") /\ actions["$"].type = "accept"

C8_AcceptStays ==
  (pc = "table" /\ HoldsAccept(row.actions)) =>
    IF stateIndex' = stateIndex THEN HoldsAccept(row'.actions)
    ELSE HoldsAccept(Last(table').actions)

\* C8: in both builders, once the "$" cell of a row holds Accept no later write
\* changes it, Accept is never an entry of a Conflict list, and the finished
\* table holds Accept in that cell
C8_AcceptNeverOverwritten ==
  /\ [][C8_AcceptStays]_vars
  /\ [](\A l \in ConflictListsOf(Rows) : ProdEntry(NullConcat) \notin Range(l))

\* the terminals on which state i (1-based) has a shift transition
ShiftTerminals(i) ==
  {g.key[2] : g \in {x \in Range(groupItems(getItems(itemSets[i]), <<>>)) : x.key[1]}}

\* C9: with isLoose the LR(1) builder keeps Shift(n) when a reduce targets the
\* cell, so every terminal a state shifts on ends as Shift and no Conflict list
\* mixes a shift state with a production; without isLoose the collision gives
\* a Conflict listing the shift state first and the production second
C9_LooseKeepsShift ==
  (Finished /\ ~isLR0) =>
    \A i \in 1..Len(table) : \A t \in ShiftTerminals(i) :
      /\ Has(table[i].actions, t)
      /\ IF isLoose
           THEN table[i].actions[t] = Shift(itemSets[i].goto[t])
           ELSE ReducersOn(i, t) # {} =>
                  /\ table[i].actions[t].type = "conflict"
                  /\ table[i].actions[t].list[1] = NumEntry(itemSets[i].goto[t])
                  /\ ~table[i].actions[t].list[2].isNumber
      /\ isLoose => \A l \in ConflictListsOf(table) :
                      \A e \in Range(l) : \A f \in Range(l) : e.isNumber = f.isNumber

NonterminalsAfterDot(i) ==
  {g.key[2] : g \in {x \in Range(groupItems(getItems(itemSets[i]), <<>>)) : ~x.key[1]}}

\* C10: for every state s of the LR(0) automaton and symbol X with a recorded
\* goto transition to t, row s of the table uses t: gotos[X] = t for a
\* nonterminal, and t is the only shift state written for a terminal
C10_TableFollowsGoto ==
  (Finished /\ isLR0) =>
    \A i \in 1..Len(table) : \A X \in DOMAIN itemSets[i].goto :
      LET t == itemSets[i].goto[X] IN
      /\ X \in NonterminalsAfterDot(i) => (Has(table[i].gotos, X) /\ table[i].gotos[X] = t)
      /\ X \in ShiftTerminals(i) => (Has(table[i].actions, X) /\ ShiftsOf(table[i].actions[X]) \subseteq {t})

\* calcClosure has emptied its queue: itemSets is the automaton it returns
AutomatonBuilt == pc \in {"table", "tableThrown", "ready", "parse", "returned"} /\ itemSets # <<>>

\* the LR(0) automata built earlier from this BNFSet object
EarlierLR0 == {i \in 1..Len(builds) : builds[i].algorithm = "LR0"}

\* C11: building the LR(0) automaton again from the same grammar gives the same
\* number of states, the same items in the state of every index and the same
\* goto transitions as the earlier build.
C11_SameAutomatonAgain ==
  (AutomatonBuilt /\ isLR0) =>
    \A i \in EarlierLR0 :
      /\ Len(builds[i].itemSets) = Len(itemSets)
      /\ \A n \in 1..Len(itemSets) :
           /\ builds[i].itemSets[n].lrItems = itemSets[n].lrItems
           /\ builds[i].itemSets[n].goto = itemSets[n].goto

\* an LR(0) automaton was built a second time from a grammar whose S has
\* several alternatives, so that both builds asked for an augmented start
C11_Witness ==
  /\ AutomatonBuilt /\ isLR0 /\ EarlierLR0 # {}
  /\ Len(getBNFbyLeft(bnfSet, "S")) > 1
  /\ Len(itemSets) > 3

\* C12: building the automaton does not modify the grammar: every step of
\* lr0 / lr1 (startCalculation and the calcClosure iterations) leaves the
\* BNFSet as it was, also on a second build and when S has several alternatives.
C12_GrammarNotModified == [][(pc \in {"start", "automaton"}) => (bnfSet' = bnfSet)]_vars

\* the item startCalculation seeded state 0 with
SeedItem == itemSets[1].initItems[1]

\* C13: state 0 of the automaton is seeded with the augmented item S' -> . S:
\* dot 0 of a production whose left side is the synthetic start symbol and whose
\* right side is the single symbol S, also when S has one alternative; the
\* start symbol the table builders use for Accept is that left side.
C13_SeedIsAugmentedStart ==
  itemSets # <<>> =>
    /\ SeedItem.dotPosition = 0
    /\ SeedItem.concatenation.left \in {SDash, SBackquote}
    /\ SeedItem.concatenation.elements = <<N("S")>>
    /\ tableGetStartSymbol(bnfSet) = SeedItem.concatenation.left

\* an element that stands for the empty string, however the parser typed it
isEpsilonElement(e) == e.value = Epsilon \/ (e.type = "terminal" /\ e.value = "")

\* the nonterminals that derive the empty string: those with an alternative
\* made of epsilon or of nullable symbols only
RECURSIVE NullableFrom(_, _)
NullableFrom(g, known) ==
  LET more == {c.left : c \in {x \in Range(AllConcats(g)) :
                 \A k \in 1..Len(x.elements) :
                    isEpsilonElement(x.elements[k]) \/ x.elements[k].value \in known}}
  IN IF more \subseteq known THEN known ELSE NullableFrom(g, known \cup more)

NullableNonTerminals(g) == NullableFrom(g, {})

\* C14: every nonterminal with an epsilon alternative, or with an alternative
\* whose symbols are all nullable, has epsilon in the FIRST set first() returns;
\* for S -> A ; A -> 'a' A | epsilon the result is FIRST(A) = {a, epsilon}.
C14_NullableHasEpsilon ==
  pc = "first" =>
    /\ \A nt \in NullableNonTerminals(bnfSet) : Epsilon \in Range(firstSet[nt])
    /\ bnf = <<LineSA, LineAeps>> => Range(firstSet["A"]) = {"a", Epsilon}

\* the element the rules of the grammar text give a symbol: a bare epsilon is
\* the terminal of the empty string, 'x' the terminal x, anything else a
\* nonterminal named without its one trailing ?, * or +
ExpectedElement(sym) ==
  IF sym = <<EpsChar>> THEN T("")
  ELSE IF Len(sym) > 0 /\ Head(sym) = "'" /\ Last(sym) = "'" THEN T(Text(SubSeq(sym, 2, Len(sym) - 1)))
  ELSE IF Len(sym) > 0 /\ Last(sym) \in {"?", "*", "+"} THEN N(Text(SubSeq(sym, 1, Len(sym) - 1)))
  ELSE N(Text(sym))

\* the lines of the text parseRawBnf turns into a rule
RuleLines == {i \in 1..Len(bnf) : trim(bnf[i]) # <<>> /\ ~parseLine(trim(bnf[i]), i - 1).thrown}

\* the alternatives of the rule on line i, as text
PartsOfLine(i) == rightPartsOf(trim(split(trim(bnf[i]), <<"-", ">">>)[2]))

\* C15: parseRawBnf turns a bare epsilon into a terminal with the empty value,
\* a quoted 'x' into the terminal x, and any other symbol into a nonterminal
\* with one trailing ?, * or + removed.
C15_SymbolClassification ==
  pc = "parsed" =>
    \A i \in RuleLines :
      \A p \in 1..Len(PartsOfLine(i)) :
        \A k \in 1..Len(symbolsOf(PartsOfLine(i)[p])) :
          parseLine(trim(bnf[i]), i - 1).rule.right[p].elements[k]
            = ExpectedElement(symbolsOf(PartsOfLine(i)[p])[k])

ParseFailures == {"invalid rule", "epsilon on the left", "epsilon not alone"}

\* line i of the text (1-based) is a rule that has the fault diagnostic d names
Offends(d, i) ==
  LET line == trim(bnf[i])
      r == parseLine(line, i - 1)
      used == {e.value : e \in {x \in Range(Flatten([k \in 1..Len(r.rule.right) |-> r.rule.right[k].elements])) :
                                  x.type = "nonterminal"}}
  IN /\ line # <<>>
     /\ IF d.error.text \in ParseFailures
          THEN r.thrown /\ r.message[2].text = d.error.text
        ELSE IF d.error.text \in {"undefined nonterminal", "badly named nonterminal"}
          THEN ~r.thrown /\ d.error.symbol \in used
        ELSE ~r.thrown /\ r.rule.left = d.error.symbol

\* C16: every diagnostic of getRawBNFWarningThrows from a parse failure (no
\* arrow, epsilon on the left, epsilon mixed into an alternative) or from
\* validation (undefined, badly named or unused nonterminal) carries the 0-based
\* index of the source line of the offending rule, also after blank lines and
\* for a rule on line 0.
C16_DiagnosticLine ==
  pc = "parsed" =>
    \A n \in 1..Len(bnfWarnings) :
      bnfWarnings[n].error.text \in ParseFailures \cup
          {"undefined nonterminal", "badly named nonterminal", "unused nonterminal"} =>
        /\ bnfWarnings[n].line \in 0..(Len(bnf) - 1)
        /\ Offends(bnfWarnings[n], bnfWarnings[n].line + 1)

\* some diagnostic of the text is an error
HasError == \E n \in 1..Len(bnfWarnings) : bnfWarnings[n].isError

\* C17: a grammar whose diagnostics are all warnings (isError = false) is still
\* parsed and handed to automaton construction; only a diagnostic with
\* isError = true makes the pipeline use the empty grammar instead.
C17_WarningsDoNotBlock ==
  pc = "parsed" =>
    bnfSet = IF HasError THEN <<>> ELSE parseRawBnf(bnf).bnfs

\* the kernel of a state: the items it was created from
Kernel(n) == Range(itemSets[n].initItems)

\* C18: in the finished LR(0) automaton no two states have the same set of
\* kernel items, whatever order the items of a candidate were collected in.
C18_KernelsDistinct ==
  (AutomatonBuilt /\ isLR0) =>
    \A m, n \in 1..Len(itemSets) : m # n => Kernel(m) # Kernel(n)

\* the candidate next state of state n on sym: the items of n whose dot
\* stands before sym, advanced
GotoCandidate(n, sym) ==
  {advance(it) : it \in {x \in Range(itemSets[n].lrItems) : getDotNextElement(x).value = sym}}

\* the items of state n whose dot stands before sym, in the order the closure
\* lists them
CandidateOrder(n, sym) == SelectSeq(itemSets[n].lrItems, LAMBDA x : getDotNextElement(x).value = sym)

\* the cores of the kernel of a state: its items without their lookaheads
KernelCores(n) == {getHash(it) : it \in Kernel(n)}

\* C19: in the finished LR(1) automaton no two states have the same set of
\* (production, dot, lookahead) seed items, and the state a goto leads to is
\* seeded with exactly the candidate's items: candidates are merged when their
\* seed sets are equal and only then, so equal cores with different
\* lookaheads stay apart.
C19_MergedByCoreAndLookahead ==
  (AutomatonBuilt /\ ~isLR0) =>
    /\ \A m, n \in 1..Len(itemSets) : m # n => Kernel(m) # Kernel(n)
    /\ \A n \in 1..Len(itemSets) : \A sym \in DOMAIN itemSets[n].goto :
         Kernel(itemSets[n].goto[sym] + 1) = GotoCandidate(n, sym)

\* an LR(1) automaton with two states of the same cores and different
\* lookaheads, and a state reached on one symbol from two states whose
\* closures list the candidate's items in different orders
C19_Witness ==
  /\ AutomatonBuilt /\ ~isLR0
  /\ \E m, n \in 1..Len(itemSets) : m # n /\ KernelCores(m) = KernelCores(n)
  /\ \E m, n \in 1..Len(itemSets) : m # n /\
       \E sym \in (DOMAIN itemSets[m].goto) \cap (DOMAIN itemSets[n].goto) :
          /\ itemSets[m].goto[sym] = itemSets[n].goto[sym]
          /\ CandidateOrder(m, sym) # CandidateOrder(n, sym)

\* C20: for every state of an LR(1) automaton, resolving the shift / goto
\* destination once per symbol group, from the goto recorded on the state,
\* gives the same shift and goto cells as resolving it once per item by
\* searching all states for one that has the advanced item.
C20_GroupEqualsPerItem ==
  (AutomatonBuilt /\ ~isLR0) =>
    \A n \in 1..Len(itemSets) :
      shiftsPerGroup(itemSets, itemSets[n], NewRow(n - 1), groupItems(getItems(itemSets[n]), <<>>))
        = shiftsPerItem(itemSets, NewRow(n - 1), getItems(itemSets[n]))

\* the symbols after the symbol that follows the dot of an item
BetaOf(it) == SubSeq(it.concatenation.elements, it.dotPosition + 2, Len(it.concatenation.elements))

\* the items of state n with a nonterminal after the dot
BeforeNonTerminal(n) ==
  {it \in Range(itemSets[n].lrItems) : getDotNextElement(it).type = "nonterminal"}

\* C21: when the LR(1) builder has finished every state is closed: with an
\* item [A -> alpha . B beta, a] it holds [B -> . gamma, la] for each production
\* B -> gamma and each la of FIRST(beta a) as computeFirstSeqBetaA returns it;
\* and the state a goto leads to holds every advanced item with the lookahead
\* of the item it was advanced from.
C21_StatesClosed ==
  (AutomatonBuilt /\ ~isLR0) =>
    \A n \in 1..Len(itemSets) :
      /\ \A it \in BeforeNonTerminal(n) :
           \A prod \in Range(getBNFbyLeft(bnfSet, getDotNextElement(it).value)) :
             \A la \in Range(computeFirstSeqBetaA(BetaOf(it), it.lookahead, firstSet, <<>>)) :
               [concatenation |-> prod, dotPosition |-> 0, lookahead |-> la]
                  \in Range(itemSets[n].lrItems)
      /\ \A it \in Range(itemSets[n].lrItems) :
           getDotNextElement(it) # Undefined =>
             /\ Has(itemSets[n].goto, getDotNextElement(it).value)
             /\ [concatenation |-> it.concatenation, dotPosition |-> it.dotPosition + 1,
                 lookahead |-> it.lookahead]
                  \in Range(itemSets[itemSets[n].goto[getDotNextElement(it).value] + 1].lrItems)

\* a finished LR(1) state with an item whose FIRST(beta a) has two terminals,
\* before a nonterminal, and an item that was advanced with a lookahead other
\* than the end marker
C21_Witness ==
  /\ AutomatonBuilt /\ ~isLR0
  /\ \E n \in 1..Len(itemSets) : \E it \in BeforeNonTerminal(n) :
       /\ Len(computeFirstSeqBetaA(BetaOf(it), it.lookahead, firstSet, <<>>)) > 1
       /\ BetaOf(it) # <<>>
  /\ \E n \in 1..Len(itemSets) : \E it \in Range(itemSets[n].initItems) :
       it.dotPosition > 0 /\ it.lookahead # "$"

\* C22: in every state of the LR(0) automaton no two entries of the item list
\* have the same production and dot position, also when the closure derives a
\* seed item of the state again.
C22_NoDuplicateItems ==
  (AutomatonBuilt /\ isLR0) =>
    \A n \in 1..Len(itemSets) : \A i, j \in 1..Len(itemSets[n].lrItems) :
      i # j => getHash(itemSets[n].lrItems[i]) # getHash(itemSets[n].lrItems[j])

\* every goto entry of every state names a state of the list
GotosExist ==
  \A n \in 1..Len(itemSets) : \A sym \in DOMAIN itemSets[n].goto :
    itemSets[n].goto[sym] \in 0..(Len(itemSets) - 1)

\* an iteration of calcClosure keeps every state it found: the list only grows
\* and the kernel of a state stays what it was
StatesKept ==
  (pc = "automaton" /\ pc' = "automaton") =>
    /\ Len(itemSets') >= Len(itemSets)
    /\ \A n \in 1..Len(itemSets) : itemSets'[n].initItems = itemSets[n].initItems

\* C23: the work queue of calcClosure, LR(0) and LR(1), becomes empty after
\* finitely many iterations (each iteration runs the item queue of closure to
\* its end), also for left-recursive grammars and cyclic unit productions; no
\* state is removed on the way and every goto index names an existing state.
C23_ConstructionTerminates ==
  /\ (pc = "automaton") ~> (pc = "automaton" /\ que = <<>>)
  /\ [][StatesKept]_vars
  /\ []GotosExist

\* the queue has run empty on the left-recursive grammar or on the one with
\* cyclic unit productions, and states were added on the way
C23_Witness ==
  /\ pc = "automaton" /\ que = <<>>
  /\ InputIs(GLeft) \/ InputIs(GCycle)
  /\ Len(itemSets) > 2

\* FIRST of one symbol of a right-hand side: a terminal is its own FIRST set
FirstOfElement(e) == IF e.type = "terminal" THEN {e.value} ELSE Range(firstSet[e.value])

\* C24: for every alternative A -> X1 ... Xn and every Xi whose predecessors
\* X1 .. X(i-1) are all nullable nonterminals, FIRST(Xi) without epsilon is part
\* of FIRST(A); for S -> B 'c' ; B -> epsilon, FIRST(S) contains c.
C24_FirstSkipsNullable ==
  pc = "first" =>
    /\ \A r \in Range(bnfSet) : \A c \in Range(r.right) : \A i \in 1..Len(c.elements) :
         (\A k \in 1..(i - 1) : /\ c.elements[k].type = "nonterminal"
                                /\ c.elements[k].value \in NullableNonTerminals(bnfSet))
           => (FirstOfElement(c.elements[i]) \ {Epsilon}) \subseteq Range(firstSet[r.left])
    /\ bnf = <<LineSBc, LineBeps>> => "c" \in Range(firstSet["S"])

\* the cell the driver looks up at the start of an iteration, NoCell when the
\* row or the action is missing
NoCell == [type |-> "none"]
LoopRuns == pc = "parse" /\ outcome = ""
CellNow ==
  IF LoopRuns /\ stack # <<>> /\ hasRow(table, Last(stack))
       /\ Has(table[Last(stack) + 1].actions, currentToken(program, index))
    THEN table[Last(stack) + 1].actions[currentToken(program, index)]
    ELSE NoCell

\* the two stacks and the input position after the reduce in CellNow, as the
\* claim describes it
ReduceBy(concat) ==
  LET n == Len(concat.elements)
      keptStates == SubSeq(stack, 1, Len(stack) - n)
      keptTrees == SubSeq(symbolStack, 1, Len(symbolStack) - n)
      removed == SubSeq(symbolStack, Len(symbolStack) - n + 1, Len(symbolStack))
  IN /\ Len(stack) > n /\ Len(symbolStack) >= n
     /\ symbolStack' = Append(keptTrees, ParseTreeNode(concat.left, removed))
     /\ Has(table[Last(keptStates) + 1].gotos, concat.left)
     /\ stack' = Append(keptStates, table[Last(keptStates) + 1].gotos[concat.left])
     /\ index' = index

C26_TraceRecordsEnteredState ==
  (LoopRuns /\ logs # <<>> /\ ~Last(logs).isString) => Last(logs).state = Last(stack)

\* the positions of the structured entries of the trace
StructuredEntries == {i \in 1..Len(logs) : ~logs[i].isString}

\* the last structured entry of the trace
LastStructured == logs[CHOOSE i \in StructuredEntries : \A j \in StructuredEntries : j <= i]

\* C27: when parseProgram returns with a symbol stack that does not hold
\* exactly one tree, the tree of the last structured entry of the returned
\* trace is a ROOT node whose children are the trees on the symbol stack in
\* stack order, also when the loop ended on a missing goto after the reduce had
\* pushed its node; the call did not throw.
C27_RootWrapsSymbolStack ==
  /\ (pc = "parse" /\ Len(symbolStack) # 1) => outcome # "throw"
  /\ (pc = "returned" /\ Len(symbolStack) # 1 /\ StructuredEntries # {})
       => LastStructured.tree = ParseTreeNode("ROOT", symbolStack)

\* C28: when the cell looked up for the current state and token is a Conflict,
\* the iteration appends one diagnostic string to the trace and ends the loop;
\* the state stack, the symbol stack and the input position stay as they were.
C28_ConflictStops ==
  [][(CellNow.type = "conflict") =>
       /\ Len(logs') = Len(logs) + 1 /\ SubSeq(logs', 1, Len(logs)) = logs
       /\ Last(logs').isString
       /\ outcome' \notin {"", "throw", "accept"}
       /\ stack' = stack /\ symbolStack' = symbolStack /\ index' = index]_vars

\* the driver has stopped on a Conflict cell after it had shifted a token
C28_Witness ==
  /\ pc = "parse" /\ outcome = "unknown" /\ index > 0
  /\ hasRow(table, Last(stack))
  /\ Has(table[Last(stack) + 1].actions, currentToken(program, index))
  /\ table[Last(stack) + 1].actions[currentToken(program, index)].type = "conflict"

\* C29: at the start of every iteration of the driver loop, for any token
\* stream and any table, the state stack is not empty and holds exactly one
\* entry more than the symbol stack; the input position never decreases and
\* grows by exactly one in a shift, and only there.
C29_StacksInStep ==
  /\ [](LoopRuns => (stack # <<>> /\ Len(stack) = Len(symbolStack) + 1))
  /\ [][(LoopRuns /\ pc' = "parse") =>
          /\ index' >= index
          /\ index' = (IF CellNow.type = "shift" THEN index + 1 ELSE index)]_vars

\* the loop starts an iteration after two shifts and a reduce
C29_Witness ==
  /\ LoopRuns /\ index >= 2 /\ symbolStack # <<>>
  /\ Last(symbolStack).children # <<>>
  /\ Len(stack) = Len(symbolStack) + 1

\* the grammar the pipeline was started with: lr0 may have appended S_acute -> S
InputGrammar == SelectSeq(bnfSet, LAMBDA r : r.left # SDash)

\* getRawBNFWarningThrows has nothing to report on the rules of g
PassesValidation(g) ==
  /\ \A i \in 1..Len(g) : checkRule(g, i) = <<>>
  /\ \A k \in 1..Len(definedNonTerminals(g)) : checkUnused(g, definedNonTerminals(g)[k]) = <<>>
  /\ Len(g) > 0 /\ g[1].left = "S"

\* the driver's variables after k more iterations of the loop
RECURSIVE Iterations(_, _)
Iterations(st, k) ==
  IF k = 0 \/ st.outcome # "" THEN st
  ELSE Iterations(parseIteration(table, program, st), k - 1)

\* the loop is in a cycle: some iterations later it is still running, with the
\* state stack and the input position it has now. An iteration reads the table,
\* the tokens, the state stack, the input position and the height of the
\* symbol stack only, so from here the loop repeats these iterations for ever.
DriverCycles ==
  /\ LoopRuns
  /\ \E k \in 1..MaxLogs :
       LET st == Iterations([stack |-> stack, symbolStack |-> symbolStack, logs |-> logs,
                             index |-> index, outcome |-> ""], k)
       IN st.outcome = "" /\ st.stack = stack /\ st.index = index
            /\ Len(st.symbolStack) = Len(symbolStack)

\* the exploration of a trace ends at MaxLogs entries only inside such a cycle
CutInsideCycle == (LoopRuns /\ Len(logs) >= MaxLogs) => DriverCycles

\* C30: for every token stream and every table a builder made from a grammar
\* that passes validation, cyclic unit productions included, the driver loop
\* ends after finitely many iterations, by accept or by a diagnostic: it is
\* never in a cycle, and every run of it reaches the end of the loop.
C30_DriverStops ==
  /\ [](PassesValidation(InputGrammar) => ~DriverCycles)
  /\ (pc = "parse" /\ PassesValidation(InputGrammar)) ~> (outcome \notin {"", "throw"})

====
